---- MODULE Spec2Model ----
(***************************************************************************)
(* Heading-hierarchy subsystem of the site:                                *)
(*   - the live tracker  (HeadingProvider / Heading, components/ui/Heading.tsx) *)
(*   - the static auditor (validateHeadingHierarchy, same file)            *)
(*   - the CLI audit      (validateFileHierarchy, scripts/audit-heading-hierarchy.js) *)
(*                                                                         *)
(* One document is modelled: a list of heading levels, in document order. *)
(* The same list is mounted under a HeadingProvider, rendered to an        *)
(* element tree that the auditor walks, and handed to the CLI as the       *)
(* headings extracted from one file.                                       *)
(***************************************************************************)
EXTENDS Integers, Sequences, FiniteSets, TLC

\* ---------------------------------------------------------------- bounds
MaxLen == 4
MaxInitialLevel == 1
MaxFiles == 1
MaxAudits == 2
MaxScopeLen == 2
MaxTags == 2
MaxEvents == 4

\* ------------------------------------------------------ program constants
MaxLevel == 6
Levels == 1..MaxLevel
ScrollThreshold == 300
ShowDelay == 3000
HideDelay == 13000

VARIABLES
  NODE_ENV,       \* process.env.NODE_ENV
  initialLevel,   \* HeadingProvider prop
  headings,       \* level prop of the Heading children, in document order
  currentLevel,   \* HeadingProvider state (useState)
  closureLevel,   \* currentLevel captured by the registerHeading of the last render
  queue,          \* setCurrentLevel updates enqueued and not yet processed
  effectIdx,      \* next Heading whose effect is to run in this pass
  pass,           \* number of the effect pass (1 = mount)
  warnings,       \* console.warn calls, in order
  calls,          \* history: one record per registerHeading call
  audited,        \* validateHeadingHierarchy has been called
  errors,         \* its return value
  audits,         \* number of validateHeadingHierarchy calls
  tree,           \* the element tree it was called on
  locals,         \* its locals errors and lastLevel when it returned
  prevErrors,     \* return value of the call before the last
  filesDone,      \* number of validateFileHierarchy calls
  violations,     \* return value of the last validateFileHierarchy call
  summary,        \* auditResults.summary (h1Count, multipleH1Files)
  scopes,         \* two HeadingProvider instances mounted side by side
  auto,           \* a HeadingProvider over headings some of which use autoLevel
  outside,        \* headings rendered outside any HeadingProvider
  fileSystem,     \* the files the audit script scans, in scan order
  auditResults,   \* audit-heading-hierarchy.js: auditResults
  scanIdx,        \* next file scanDirectory hands to processFile
  exitCode,       \* <<code>> once the script has exited, <<>> before
  scrollY,        \* window.scrollY
  isVisible,      \* FloatingWhatsapp state
  showTooltip,    \* FloatingWhatsapp state
  effectFor,      \* isVisible of the render whose tooltip effect ran last
  timers,         \* pending timeouts of the tooltip effect
  events,         \* number of user events so far (scrolls and clicks)
  lastEvent,      \* the last step taken
  showFired,      \* the show timer of this visibility period has fired
  staleFire       \* a timer fired while the button was hidden

vars == <<NODE_ENV, initialLevel, headings, currentLevel, closureLevel, queue,
          effectIdx, pass, warnings, calls, audited, errors, audits, tree,
          locals, prevErrors, filesDone, violations, summary, scopes, auto,
          outside, fileSystem, auditResults, scanIdx, exitCode, scrollY,
          isVisible, showTooltip, effectFor, timers, events, lastEvent,
          showFired, staleFire>>

trackerVars == <<currentLevel, closureLevel, queue, effectIdx, pass, warnings, calls>>
auditVars == <<audited, errors, audits, tree, locals, prevErrors>>
cliVars == <<filesDone, violations, summary>>
inputVars == <<NODE_ENV, initialLevel, headings>>
scopeVars == <<scopes>>
pageVars == <<inputVars, trackerVars, auditVars, cliVars>>
autoVars == <<auto>>
outsideVars == <<outside>>
scriptVars == <<fileSystem, auditResults, scanIdx, exitCode>>
whatsappVars == <<scrollY, isVisible, showTooltip, effectFor, timers, events,
                  lastEvent, showFired, staleFire>>
extraVars == <<autoVars, outsideVars, scriptVars, whatsappVars>>

\* ---------------------------------------------------------------- helpers
Max(a, b) == IF a >= b THEN a ELSE b

Last(s) == s[Len(s)]

HeadingSeqs == UNION {[1..n -> Levels] : n \in 0..MaxLen}

\* ============================================================ live tracker
\* Heading.tsx:29  `level > currentLevel + 1`
RegisterSkipsGeq(level, cur) == level >= cur + 1
RegisterSkips(level, cur) == level > cur + 1

\* a warning that suggests the level just above the observed one
WarningTextAboveObserved(level, cur) ==
  "Heading hierarchy violation: Jumping from H" \o ToString(cur) \o " to H"
    \o ToString(level) \o ". Consider using H" \o ToString(level - 1) \o " instead."

\* Heading.tsx:30-33  template literal of the warning
WarningText(level, cur) ==
  "Heading hierarchy violation: Jumping from H" \o ToString(cur) \o " to H"
    \o ToString(level) \o ". Consider using H" \o ToString(cur + 1) \o " instead."

\* registerHeading with the state update moved inside the development branch
registerHeadingDevOnly(level, cur, env, console, q) ==
  [console |-> IF env = "development" /\ RegisterSkips(level, cur)
                 THEN Append(console, WarningText(level, cur))
                 ELSE console,
   queue   |-> IF env = "development" THEN Append(q, level) ELSE q,
   returns |-> "undefined"]

\* a registerHeading that throws on a violation instead of logging it
registerHeadingThrowing(level, cur, env, console, q) ==
  IF env = "development" /\ RegisterSkips(level, cur)
    THEN [console |-> console, queue |-> q, returns |-> "throws"]
    ELSE [console |-> console, queue |-> Append(q, level), returns |-> "undefined"]

\* Heading.tsx:26-37  registerHeading, a closure over `cur` (the currentLevel
\* of the render that created it).  Yields the console and the update queue
\* it leaves, and the value it returns (the function is `=> void`).
registerHeading(level, cur, env, console, q) ==
  [console |-> IF env = "development" /\ RegisterSkips(level, cur)
                 THEN Append(console, WarningText(level, cur))
                 ELSE console,
   queue   |-> Append(q, level),
   returns |-> "undefined"]

Min(a, b) == IF a <= b THEN a ELSE b

\* a heading that is moved up to the deepest level that is no skip
actualLevelFixed(level, autoLevel, contextLevel) ==
  IF autoLevel THEN Min(contextLevel + 1, 6) ELSE Min(level, contextLevel + 1)

\* Heading.tsx:70  actualLevel; contextLevel is the `level` of the context
\* value the Heading rendered with
actualLevel(level, autoLevel, contextLevel) ==
  IF autoLevel THEN Min(contextLevel + 1, 6) ELSE level

EffectsPending == effectIdx <= Len(headings)

\* Heading.tsx:72-74  the effect of the effectIdx-th Heading runs.  Effects of
\* siblings run in document order after the commit; every one of them calls
\* the registerHeading of that render.  The headings of the page are
\* rendered without autoLevel (the default, Heading.tsx:65).
HeadingEffect ==
  /\ EffectsPending
  /\ LET level == actualLevel(headings[effectIdx], FALSE, closureLevel)
         r == registerHeading(level, closureLevel, NODE_ENV, warnings, queue)
     IN /\ warnings' = r.console
        /\ queue' = r.queue
        /\ calls' = Append(calls, [pass |-> pass, k |-> effectIdx, level |-> level,
                                   prior |-> closureLevel,
                                   warned |-> r.console # warnings,
                                   returned |-> r.returns])
  /\ effectIdx' = effectIdx + 1
  /\ UNCHANGED <<currentLevel, closureLevel, pass>>
  /\ UNCHANGED <<extraVars, scopeVars, inputVars, auditVars, cliVars>>

\* a state that moves one level per render towards the last queued level
setCurrentLevelStep(state, q) ==
  IF q = <<>> THEN state
  ELSE IF Last(q) > state THEN state + 1
  ELSE IF Last(q) < state THEN state - 1
  ELSE state

\* Heading.tsx:24,36  useState: the queued setCurrentLevel(level) calls are
\* processed in order, the last value wins.
setCurrentLevel(state, q) == IF q = <<>> THEN state ELSE Last(q)

\* Heading.tsx:23-44,72-74  the queued updates changed the state: the provider
\* renders again, useCallback returns a new registerHeading (dependency
\* currentLevel changed), the context value changes, every Heading renders
\* again and its effect is scheduled again (dependency registerHeading).
ProviderRerender ==
  /\ ~EffectsPending
  /\ queue # <<>>
  /\ setCurrentLevel(currentLevel, queue) # currentLevel
  /\ currentLevel' = setCurrentLevel(currentLevel, queue)
  /\ closureLevel' = currentLevel'
  /\ queue' = <<>>
  /\ effectIdx' = 1
  /\ pass' = pass + 1
  /\ UNCHANGED <<warnings, calls>>
  /\ UNCHANGED <<extraVars, scopeVars, inputVars, auditVars, cliVars>>

\* Heading.tsx:24,37  the queued updates leave the state as it is: React bails
\* out, registerHeading keeps its identity, no effect runs again.
ProviderBailout ==
  /\ ~EffectsPending
  /\ queue # <<>>
  /\ setCurrentLevel(currentLevel, queue) = currentLevel
  /\ queue' = <<>>
  /\ UNCHANGED <<currentLevel, closureLevel, effectIdx, pass, warnings, calls>>
  /\ UNCHANGED <<extraVars, scopeVars, inputVars, auditVars, cliVars>>

Quiescent == ~EffectsPending /\ queue = <<>>

\* ========================================================== static auditor
\* element types
HeadingTag(l) == "h" \o ToString(l)

\* Heading.tsx:133  React.isValidElement(node): text is not an element
isValidElement(node) == node.type # "#text"

\* Heading.tsx:135  typeof node.type === 'string' && /^h[1-6]$/.test(node.type)
isHeadingType(type) == type \in {HeadingTag(l) : l \in 1..6}

\* Heading.tsx:136  parseInt(node.type.charAt(1))
parseLevel(type) == CHOOSE l \in 1..6 : HeadingTag(l) = type

\* Heading.tsx:140  node.type.toUpperCase()
toUpperCase(type) == "H" \o ToString(parseLevel(type))

\* Heading.tsx:138  `level > lastLevel + 1`
TraverseSkipsGeq(level, lastLevel) == level >= lastLevel + 1
TraverseSkips(level, lastLevel) == level > lastLevel + 1

\* Heading.tsx:139-142  template literal of the error
ErrorText(type, lastLevel) ==
  "Heading hierarchy violation: Found " \o toUpperCase(type) \o " after H"
    \o ToString(lastLevel) \o ". Consider using H" \o ToString(lastLevel + 1)
    \o " instead."

\* Heading.tsx:145  `lastLevel = level`
TraverseKeepLast(level, lastLevel) == lastLevel
TraverseNextLast(level, lastLevel) == level

\* Heading.tsx:132-154  traverse; st is the pair of closure variables
\* (errors, lastLevel) it updates.
RECURSIVE traverse(_, _)
RECURSIVE forEachChild(_, _)
traverse(node, st) ==
  IF isValidElement(node)
  THEN LET st1 == IF isHeadingType(node.type)
                  THEN LET level == parseLevel(node.type)
                       IN [errors |-> IF TraverseSkips(level, st.lastLevel)
                                        THEN Append(st.errors, ErrorText(node.type, st.lastLevel))
                                        ELSE st.errors,
                           lastLevel |-> TraverseNextLast(level, st.lastLevel)]
                  ELSE st
       IN forEachChild(node.children, st1)
  ELSE st

\* a forEach that visits the first child only
forEachFirstChild(children, st) ==
  IF children = <<>> THEN st ELSE traverse(Head(children), st)

\* Heading.tsx:149-152  React.Children.forEach(props.children, traverse)
forEachChild(children, st) ==
  IF children = <<>> THEN st
  ELSE forEachChild(Tail(children), traverse(Head(children), st))

\* locals that survive from one call to the next
LocalsKept(prev) == prev

\* Heading.tsx:129-130  `const errors = []; let lastLevel = 0;` the locals
\* every call starts with, whatever an earlier call left (prev)
Locals(prev) == [errors |-> <<>>, lastLevel |-> 0]

\* Heading.tsx:128-158  the locals when the call returns; it returns .errors
validateHeadingHierarchy(element, prev) == traverse(element, Locals(prev))

\* ---- element trees that render the heading list
Text == [type |-> "#text", children |-> <<>>]
Element(type, children) == [type |-> type, children |-> children]
HeadingElement(l) == Element(HeadingTag(l), <<Text>>)

\* <div><h1/><h2/>...</div>
FlatTree(hs) == Element("div", [k \in 1..Len(hs) |-> HeadingElement(hs[k])])

\* <div><section><h1/></section><section><h2/></section>...</div>
SectionTree(hs) ==
  Element("div", [k \in 1..Len(hs) |-> Element("section", <<HeadingElement(hs[k])>>)])

\* <div><h1/><section><h2/><section><h3/>...</section></section></div>
RECURSIVE NestedChildren(_)
NestedChildren(hs) ==
  IF hs = <<>> THEN <<>>
  ELSE IF Len(hs) = 1 THEN <<HeadingElement(hs[1])>>
  ELSE <<HeadingElement(hs[1]), Element("section", NestedChildren(Tail(hs)))>>
NestedTree(hs) == Element("div", NestedChildren(hs))

Shapes == {"flat", "section", "nested"}
Tree(shape, hs) ==
  CASE shape = "flat" -> FlatTree(hs)
    [] shape = "section" -> SectionTree(hs)
    [] shape = "nested" -> NestedTree(hs)

\* A test calls validateHeadingHierarchy once render() has returned, that is
\* after the effects and updates of the mount are flushed.  A later call is
\* on the same, unchanged tree.  The page, the audit script and the auditor
\* share no state; they are run one after the other, the auditor last.
Audit ==
  /\ Quiescent
  /\ filesDone = MaxFiles
  /\ audits < MaxAudits
  /\ IF audits = 0
       THEN \E shape \in Shapes : tree' = Tree(shape, headings)
       ELSE tree' = tree
  /\ locals' = validateHeadingHierarchy(tree', locals)
  /\ errors' = locals'.errors
  /\ prevErrors' = errors
  /\ audits' = audits + 1
  /\ audited' = TRUE
  /\ UNCHANGED <<extraVars, scopeVars, inputVars, trackerVars, cliVars>>

\* =============================================================== CLI audit
\* A source text is a sequence of lines, a line the sequence of the tags on
\* it.  A tag is <hN ...>, <HN ...>, <hN ... />, <HN ... /> or </hN>, </HN>.
Tag(letter, level, form) == [letter |-> letter, level |-> level, form |-> form]

\* audit-heading-hierarchy.js:18-23  HEADING_PATTERNS, in the order
\* Object.entries yields them
HEADING_PATTERNS == <<"jsx", "component", "selfClosing", "componentSelfClosing">>

\* audit-heading-hierarchy.js:19-22  does the pattern match at the tag.  All
\* four patterns carry the flag i, so the letter case decides nothing; `<`
\* must be followed by h or H (a closing tag never matches); `[^>]*>` ends at
\* the tag's `>`, `[^>]*\/>` only when `/` stands before it.
Matches(pattern, tag) ==
  /\ tag.form # "close"
  /\ pattern \in {"selfClosing", "componentSelfClosing"} => tag.form = "selfClosing"

\* audit-heading-hierarchy.js:51  the tags of the text with their line numbers
RECURSIVE Occurrences(_, _)
Occurrences(content, lineNumber) ==
  IF content = <<>> THEN <<>>
  ELSE [i \in 1..Len(Head(content)) |->
          [tag |-> Head(content)[i], lineNumber |-> lineNumber]]
       \o Occurrences(Tail(content), lineNumber + 1)

\* audit-heading-hierarchy.js:47-60  the while loop over pattern.exec: one
\* heading object per match of the pattern, in text order
MatchesOf(pattern, content) ==
  LET found == SelectSeq(Occurrences(content, 1), LAMBDA o : Matches(pattern, o.tag))
  IN [i \in 1..Len(found) |->
        [level |-> found[i].tag.level,
         type |-> IF pattern \in {"component", "componentSelfClosing"}
                    THEN "component" ELSE "html",
         match |-> found[i].tag,
         lineNumber |-> found[i].lineNumber]]

\* audit-heading-hierarchy.js:63  Array.prototype.sort with the comparator
\* a.lineNumber - b.lineNumber (a stable sort)
RECURSIVE InsertByLine(_, _)
InsertByLine(x, sorted) ==
  IF sorted = <<>> THEN <<x>>
  ELSE IF Last(sorted).lineNumber <= x.lineNumber THEN Append(sorted, x)
  ELSE Append(InsertByLine(x, SubSeq(sorted, 1, Len(sorted) - 1)), Last(sorted))

RECURSIVE sortByLineNumber(_)
sortByLineNumber(hs) ==
  IF hs = <<>> THEN <<>>
  ELSE InsertByLine(Last(hs), sortByLineNumber(SubSeq(hs, 1, Len(hs) - 1)))

\* audit-heading-hierarchy.js:42-64  extractHeadings
extractHeadings(content) ==
  sortByLineNumber(MatchesOf(HEADING_PATTERNS[1], content)
                     \o MatchesOf(HEADING_PATTERNS[2], content)
                     \o MatchesOf(HEADING_PATTERNS[3], content)
                     \o MatchesOf(HEADING_PATTERNS[4], content))

\* audit-heading-hierarchy.js:83  `level > lastLevel + 1`
FileSkipsTwo(level, lastLevel) == level > lastLevel + 2
FileSkips(level, lastLevel) == level > lastLevel + 1

\* audit-heading-hierarchy.js:86  template literal of the message
SkipMessage(level, lastLevel) ==
  "Heading hierarchy violation: H" \o ToString(level) \o " follows H"
    \o ToString(lastLevel) \o " (skipped H" \o ToString(lastLevel + 1) \o ")"

\* audit-heading-hierarchy.js:74-95  the forEach over the headings; st holds
\* the locals violations, lastLevel and h1Count.
RECURSIVE forEachHeading(_, _)
forEachHeading(hs, st) ==
  IF hs = <<>> THEN st
  ELSE LET heading == Head(hs)
           level == heading.level
       IN forEachHeading(Tail(hs),
            [violations |->
                IF FileSkips(level, st.lastLevel)
                THEN Append(st.violations,
                       [type |-> "hierarchy_skip",
                        message |-> SkipMessage(level, st.lastLevel),
                        lineNumber |-> heading.lineNumber,
                        level |-> level,
                        previousLevel |-> st.lastLevel])
                ELSE st.violations,
             lastLevel |-> level,
             h1Count |-> IF level = 1 THEN st.h1Count + 1 ELSE st.h1Count])

\* audit-heading-hierarchy.js:69-111  validateFileHierarchy: the returned
\* violations and the h1Count it adds to the summary.
validateFileHierarchy(hs) ==
  LET st == forEachHeading(hs, [violations |-> <<>>, lastLevel |-> 0, h1Count |-> 0])
  IN [violations |->
        IF st.h1Count > 1
        THEN Append(st.violations,
               [type |-> "multiple_h1",
                message |-> "Multiple H1 headings found (" \o ToString(st.h1Count) \o " total)",
                count |-> st.h1Count])
        ELSE st.violations,
      h1Count |-> st.h1Count]

\* the source text of the document: one tag <hN> per line
FileContent(hs) == [k \in 1..Len(hs) |-> <<Tag("h", hs[k], "open")>>]

\* audit-heading-hierarchy.js:119,69-111  one call of validateFileHierarchy,
\* on the headings extractHeadings returns for the source of the document,
\* with its updates of auditResults.summary.  The script runs in a process of
\* its own and shares no state with the page; it is run on the finished
\* document.
ValidateFile ==
  /\ Quiescent
  /\ filesDone < MaxFiles
  /\ LET r == validateFileHierarchy(extractHeadings(FileContent(headings)))
     IN /\ violations' = r.violations
        /\ summary' = [h1Count |-> summary.h1Count + r.h1Count,
                       multipleH1Files |-> IF r.h1Count > 1
                                             THEN summary.multipleH1Files + 1
                                             ELSE summary.multipleH1Files]
  /\ filesDone' = filesDone + 1
  /\ UNCHANGED <<extraVars, scopeVars, inputVars, trackerVars, auditVars>>

\* ======================================================= the audit script
\* audit-heading-hierarchy.js:26-37
InitialAuditResults ==
  [files |-> <<>>,
   violations |-> <<>>,
   summary |-> [totalFiles |-> 0, filesWithHeadings |-> 0, totalHeadings |-> 0,
                violationsFound |-> 0, h1Count |-> 0, multipleH1Files |-> <<>>]]

\* a count of the files that have violations
CountFilesWithViolations(vs) == IF vs = <<>> THEN 0 ELSE 1

\* audit-heading-hierarchy.js:129  `violations.length`
CountViolations(vs) == Len(vs)

\* audit-heading-hierarchy.js:116-141  processFile: auditResults after the
\* call.  A file that cannot be read raises in readFileSync; the catch logs
\* and leaves auditResults as it is.
processFile(file, ar) ==
  IF ~file.readable THEN ar
  ELSE LET hs == extractHeadings(file.content)
           r == IF Len(hs) > 0 THEN validateFileHierarchy(hs)
                               ELSE [violations |-> <<>>, h1Count |-> 0]
           sm == ar.summary
       IN [files |-> Append(ar.files, [path |-> file.path, headings |-> hs,
                                       violations |-> r.violations]),
           violations |-> ar.violations \o r.violations,
           summary |->
             [totalFiles |-> sm.totalFiles,
              filesWithHeadings |-> IF Len(hs) > 0 THEN sm.filesWithHeadings + 1
                                                   ELSE sm.filesWithHeadings,
              totalHeadings |-> sm.totalHeadings + Len(hs),
              violationsFound |-> sm.violationsFound + CountViolations(r.violations),
              h1Count |-> sm.h1Count + r.h1Count,
              multipleH1Files |-> IF r.h1Count > 1
                                    THEN Append(sm.multipleH1Files, file.path)
                                    ELSE sm.multipleH1Files]]

\* audit-heading-hierarchy.js:155-157  scanDirectory hands the next .tsx file
\* to processFile and counts it
ProcessFile ==
  /\ exitCode = <<>>
  /\ scanIdx <= Len(fileSystem)
  /\ LET ar == processFile(fileSystem[scanIdx], auditResults)
     IN auditResults' =
          [ar EXCEPT !.summary.totalFiles = @ + 1]
  /\ scanIdx' = scanIdx + 1
  /\ UNCHANGED <<fileSystem, exitCode>>
  /\ UNCHANGED <<pageVars, scopeVars, autoVars, outsideVars, whatsappVars>>

\* audit-heading-hierarchy.js:249-253  the scan is over: main prints the
\* report and exits
Exit ==
  /\ exitCode = <<>>
  /\ scanIdx > Len(fileSystem)
  /\ exitCode' = <<IF auditResults.summary.violationsFound > 0 THEN 1 ELSE 0>>
  /\ UNCHANGED <<fileSystem, auditResults, scanIdx>>
  /\ UNCHANGED <<pageVars, scopeVars, autoVars, outsideVars, whatsappVars>>

\* the tags the scanned sources are made of: <h1>, <H3>, <h2 />, </h1>
SourceTags ==
  {Tag("h", 1, "open"), Tag("H", 3, "open"), Tag("h", 2, "selfClosing"),
   Tag("h", 1, "close")}

RECURSIVE TagCount(_)
TagCount(content) ==
  IF content = <<>> THEN 0 ELSE Len(Head(content)) + TagCount(Tail(content))

SourceLines == UNION {[1..n -> SourceTags] : n \in 1..MaxTags}

SourceTexts ==
  {c \in UNION {[1..k -> SourceLines] : k \in 0..MaxTags} : TagCount(c) <= MaxTags}

\* the .tsx files of the scanned directories, in readdir order
Paths == <<"a.tsx", "b.tsx">>

SourceFiles(path) ==
  {[path |-> path, readable |-> TRUE, content |-> c] : c \in SourceTexts}
    \cup {[path |-> path, readable |-> FALSE, content |-> <<>>]}

\* ======================================================= FloatingWhatsapp
\* positions the page is scrolled to
ScrollPositions == {0, ScrollThreshold, ScrollThreshold + 1}

\* FloatingWhatsapp.tsx:42,54  the tooltip is in the document
Displayed == isVisible /\ showTooltip

\* FloatingWhatsapp.tsx:30,32  the timeouts one run of the tooltip effect sets
EffectTimers == {[callback |-> "show", delay |-> ShowDelay],
                 [callback |-> "hide", delay |-> HideDelay]}

\* timeouts set at the same moment expire in the order of their delays
Due(t) == t \in timers /\ \A u \in timers : t.delay <= u.delay

\* FloatingWhatsapp.tsx:12-19  a scroll event: toggleVisibility sets the
\* state and the component renders with it.  React runs the effects of the
\* render before, if any are pending, before it renders again.
Scroll(y) ==
  /\ events < MaxEvents
  /\ y # scrollY
  /\ effectFor = isVisible
  /\ scrollY' = y
  /\ isVisible' = (y > ScrollThreshold)
  /\ showFired' = IF isVisible' /\ ~isVisible THEN FALSE ELSE showFired
  /\ events' = events + 1
  /\ lastEvent' = "scroll"
  /\ UNCHANGED <<showTooltip, effectFor, timers, staleFire>>
  /\ UNCHANGED <<pageVars, scopeVars, autoVars, outsideVars, scriptVars>>

\* FloatingWhatsapp.tsx:26-38  isVisible changed: the cleanup of the effect
\* run before clears its timeouts, then the effect runs for the new value
TooltipEffect ==
  /\ effectFor # isVisible
  /\ timers' = IF isVisible THEN EffectTimers ELSE {}
  /\ effectFor' = isVisible
  /\ lastEvent' = "effect"
  /\ UNCHANGED <<scrollY, isVisible, showTooltip, events, showFired, staleFire>>
  /\ UNCHANGED <<pageVars, scopeVars, autoVars, outsideVars, scriptVars>>

\* FloatingWhatsapp.tsx:30  `() => setShowTooltip(true)`
ShowTimerFires ==
  /\ \E t \in timers :
        /\ t.callback = "show"
        /\ Due(t)
        /\ timers' = timers \ {t}
  /\ showTooltip' = TRUE
  /\ showFired' = (showFired \/ isVisible)
  /\ staleFire' = (staleFire \/ ~isVisible)
  /\ lastEvent' = "show"
  /\ UNCHANGED <<scrollY, isVisible, effectFor, events>>
  /\ UNCHANGED <<pageVars, scopeVars, autoVars, outsideVars, scriptVars>>

\* FloatingWhatsapp.tsx:32  `() => setShowTooltip(false)`
HideTimerFires ==
  /\ \E t \in timers :
        /\ t.callback = "hide"
        /\ Due(t)
        /\ timers' = timers \ {t}
  /\ showTooltip' = FALSE
  /\ staleFire' = (staleFire \/ ~isVisible)
  /\ lastEvent' = "hide"
  /\ UNCHANGED <<scrollY, isVisible, effectFor, events, showFired>>
  /\ UNCHANGED <<pageVars, scopeVars, autoVars, outsideVars, scriptVars>>

\* FloatingWhatsapp.tsx:63-64  a click on the close button of the tooltip;
\* a second click follows while the tooltip still leaves the document
CloseClick ==
  /\ events < MaxEvents
  /\ Displayed \/ (isVisible /\ lastEvent = "close")
  /\ showTooltip' = FALSE
  /\ events' = events + 1
  /\ lastEvent' = "close"
  /\ UNCHANGED <<scrollY, isVisible, effectFor, timers, showFired, staleFire>>
  /\ UNCHANGED <<pageVars, scopeVars, autoVars, outsideVars, scriptVars>>

\* ============================================== two providers side by side
ScopeIds == {"A", "B"}

\* levels of the headings mounted under the two providers
ScopeLevels == {1, 3}

ScopeSeqs == UNION {[1..n -> ScopeLevels] : n \in 1..MaxScopeLen}

\* Heading.tsx:23-24  a mounted HeadingProvider: currentLevel starts at
\* initialLevel; hs are the Heading children below it
FreshScope(init, hs) ==
  [initialLevel |-> init, headings |-> hs, currentLevel |-> init,
   closureLevel |-> init, queue |-> <<>>, effectIdx |-> 1, pass |-> 1,
   warnings |-> <<>>]

NoScopes == [s \in ScopeIds |-> FreshScope(0, <<>>)]

\* every heading registers with one and the same provider
providerOfFirst(s) == "A"

\* Heading.tsx:47-49,67  useContext(HeadingContext): the context of the
\* nearest HeadingProvider above the heading, the one of its own scope
providerOf(s) == s

ScopeEffectsPending(s) == scopes[s].effectIdx <= Len(scopes[s].headings)

ScopeQuiescent(s) == ~ScopeEffectsPending(s) /\ scopes[s].queue = <<>>

\* Heading.tsx:72-74  the effect of the next Heading of scope s runs
ScopeEffect(s) ==
  /\ ScopeEffectsPending(s)
  /\ LET p == providerOf(s)
         level == actualLevel(scopes[s].headings[scopes[s].effectIdx], FALSE,
                              scopes[s].closureLevel)
         r == registerHeading(level, scopes[p].closureLevel, NODE_ENV,
                              scopes[p].warnings, scopes[p].queue)
     IN scopes' = [scopes EXCEPT ![p].warnings = r.console,
                                 ![p].queue = r.queue,
                                 ![s].effectIdx = @ + 1]
  /\ UNCHANGED <<extraVars, pageVars>>

\* Heading.tsx:23-44,72-74  the provider of scope s renders again with the
\* new state; the effects of its headings run again
ScopeRerender(s) ==
  /\ ~ScopeEffectsPending(s)
  /\ scopes[s].queue # <<>>
  /\ setCurrentLevel(scopes[s].currentLevel, scopes[s].queue) # scopes[s].currentLevel
  /\ scopes' = [scopes EXCEPT
                  ![s].currentLevel = setCurrentLevel(scopes[s].currentLevel, scopes[s].queue),
                  ![s].closureLevel = setCurrentLevel(scopes[s].currentLevel, scopes[s].queue),
                  ![s].queue = <<>>,
                  ![s].effectIdx = 1,
                  ![s].pass = @ + 1]
  /\ UNCHANGED <<extraVars, pageVars>>

\* Heading.tsx:24,37  the queued updates leave the state of scope s as it is
ScopeBailout(s) ==
  /\ ~ScopeEffectsPending(s)
  /\ scopes[s].queue # <<>>
  /\ setCurrentLevel(scopes[s].currentLevel, scopes[s].queue) = scopes[s].currentLevel
  /\ scopes' = [scopes EXCEPT ![s].queue = <<>>]
  /\ UNCHANGED <<extraVars, pageVars>>

\* ================================================ headings with autoLevel
\* Heading.tsx:52-58  the props of a Heading
HeadingProps == [level : Levels, autoLevel : BOOLEAN]

AutoSeqs == UNION {[1..n -> HeadingProps] : n \in 1..MaxScopeLen}

\* Heading.tsx:77,89-99  the tags the headings hs emit when they render with
\* the context level contextLevel
Render(hs, contextLevel) ==
  [k \in 1..Len(hs) |->
     HeadingTag(actualLevel(hs[k].level, hs[k].autoLevel, contextLevel))]

\* Heading.tsx:23-24,60-100  a mounted HeadingProvider and the first render
\* of the headings below it
FreshAuto(init, hs) ==
  [initialLevel |-> init, headings |-> hs, currentLevel |-> init,
   closureLevel |-> init, rendered |-> Render(hs, init), queue |-> <<>>,
   effectIdx |-> 1, pass |-> 1, warnings |-> <<>>, warned |-> {}]

NoAuto == FreshAuto(0, <<>>)

AutoEffectsPending == auto.effectIdx <= Len(auto.headings)

AutoQuiescent == ~AutoEffectsPending /\ auto.queue = <<>>

\* Heading.tsx:67-74  the effect of the next Heading runs: it registers the
\* level the Heading rendered with
AutoEffect ==
  /\ AutoEffectsPending
  /\ LET h == auto.headings[auto.effectIdx]
         level == actualLevel(h.level, h.autoLevel, auto.closureLevel)
         r == registerHeading(level, auto.closureLevel, NODE_ENV,
                              auto.warnings, auto.queue)
     IN auto' = [auto EXCEPT !.warnings = r.console,
                             !.queue = r.queue,
                             !.warned = IF r.console # auto.warnings
                                          THEN @ \cup {auto.effectIdx} ELSE @,
                             !.effectIdx = @ + 1]
  /\ UNCHANGED <<pageVars, scopeVars, outsideVars, scriptVars, whatsappVars>>

\* Heading.tsx:23-44,67-77  the state changed: the provider renders again,
\* the context value carries the new level and a new registerHeading, every
\* Heading renders again with it and its effect is scheduled again
\* (dependencies actualLevel and registerHeading)
AutoRerender ==
  /\ ~AutoEffectsPending
  /\ auto.queue # <<>>
  /\ setCurrentLevel(auto.currentLevel, auto.queue) # auto.currentLevel
  /\ LET new == setCurrentLevel(auto.currentLevel, auto.queue)
     IN auto' = [auto EXCEPT !.currentLevel = new,
                             !.closureLevel = new,
                             !.rendered = Render(auto.headings, new),
                             !.queue = <<>>,
                             !.effectIdx = 1,
                             !.pass = @ + 1]
  /\ UNCHANGED <<pageVars, scopeVars, outsideVars, scriptVars, whatsappVars>>

\* Heading.tsx:24,37  the queued updates leave the state as it is
AutoBailout ==
  /\ ~AutoEffectsPending
  /\ auto.queue # <<>>
  /\ setCurrentLevel(auto.currentLevel, auto.queue) = auto.currentLevel
  /\ auto' = [auto EXCEPT !.queue = <<>>]
  /\ UNCHANGED <<pageVars, scopeVars, outsideVars, scriptVars, whatsappVars>>

\* ================================= headings outside any HeadingProvider
OutsideSeqs ==
  UNION {[1..n -> [level : ScopeLevels, autoLevel : BOOLEAN]] : n \in 1..MaxScopeLen}

\* Heading.tsx:12-15  the default value of HeadingContext: level 0; console
\* and queue are what its registerHeading has logged and queued
DefaultContext == [level |-> 0, console |-> <<>>, queue |-> <<>>]

FreshOutside(hs) == [headings |-> hs, effectIdx |-> 1, context |-> DefaultContext]

NoOutside == FreshOutside(<<>>)

\* a default context that tracks like the context of a provider
defaultRegisterHeadingTracking(level, cur, env, console, q) ==
  registerHeading(level, cur, env, console, q)

\* Heading.tsx:14  `registerHeading: () => {}`
defaultRegisterHeading(level, cur, env, console, q) ==
  [console |-> console, queue |-> q, returns |-> "undefined"]

\* Heading.tsx:47-49,67-74  the effect of the next Heading outside a provider:
\* useContext yields the default value
OutsideEffect ==
  /\ outside.effectIdx <= Len(outside.headings)
  /\ LET h == outside.headings[outside.effectIdx]
         ctx == outside.context
         level == actualLevel(h.level, h.autoLevel, ctx.level)
         r == defaultRegisterHeading(level, ctx.level, NODE_ENV, ctx.console, ctx.queue)
     IN outside' = [outside EXCEPT
                      !.context = [level |-> setCurrentLevel(ctx.level, r.queue),
                                   console |-> r.console,
                                   queue |-> r.queue],
                      !.effectIdx = @ + 1]
  /\ UNCHANGED <<pageVars, scopeVars, autoVars, scriptVars, whatsappVars>>

\* ============================================================ specification
\* the audit script before it is started
ScriptIdle ==
  /\ fileSystem = <<>>
  /\ auditResults = InitialAuditResults
  /\ scanIdx = 1
  /\ exitCode = <<>>

\* the FloatingWhatsapp component right after its mount
WhatsappIdle ==
  /\ scrollY = 0
  /\ isVisible = FALSE
  /\ showTooltip = FALSE
  /\ effectFor = FALSE
  /\ timers = {}
  /\ events = 0
  /\ lastEvent = "mount"
  /\ showFired = FALSE
  /\ staleFire = FALSE

\* the page of the main specification before anything is mounted on it
PageIdle ==
  /\ initialLevel = 0
  /\ headings = <<>>
  /\ currentLevel = 0
  /\ closureLevel = 0
  /\ queue = <<>>
  /\ effectIdx = 1
  /\ pass = 1
  /\ warnings = <<>>
  /\ calls = <<>>
  /\ audited = FALSE
  /\ errors = <<>>
  /\ audits = 0
  /\ tree = Text
  /\ locals = [errors |-> <<>>, lastLevel |-> 0]
  /\ prevErrors = <<>>
  /\ filesDone = 0
  /\ violations = <<>>
  /\ summary = [h1Count |-> 0, multipleH1Files |-> 0]

Init ==
  /\ NODE_ENV \in {"development", "production"}
  /\ initialLevel \in 0..MaxInitialLevel
  /\ headings \in HeadingSeqs
  /\ currentLevel = initialLevel
  /\ closureLevel = initialLevel
  /\ queue = <<>>
  /\ effectIdx = 1
  /\ pass = 1
  /\ warnings = <<>>
  /\ calls = <<>>
  /\ audited = FALSE
  /\ errors = <<>>
  /\ audits = 0
  /\ tree = Text
  /\ locals = [errors |-> <<>>, lastLevel |-> 0]
  /\ prevErrors = <<>>
  /\ filesDone = 0
  /\ violations = <<>>
  /\ summary = [h1Count |-> 0, multipleH1Files |-> 0]
  /\ scopes = NoScopes
  /\ auto = NoAuto
  /\ outside = NoOutside
  /\ ScriptIdle
  /\ WhatsappIdle

Next ==
  \/ HeadingEffect
  \/ ProviderRerender
  \/ ProviderBailout
  \/ Audit
  \/ ValidateFile

Spec == Init /\ [][Next]_vars

\* Two providers, each with its own headings, mounted side by side; their
\* effects and renders interleave in any order.
InitScopes ==
  /\ NODE_ENV \in {"development", "production"}
  /\ scopes \in [ScopeIds -> {FreshScope(init, hs) :
                                init \in 0..MaxInitialLevel, hs \in ScopeSeqs}]
  /\ initialLevel = 0
  /\ headings = <<>>
  /\ currentLevel = 0
  /\ closureLevel = 0
  /\ queue = <<>>
  /\ effectIdx = 1
  /\ pass = 1
  /\ warnings = <<>>
  /\ calls = <<>>
  /\ audited = FALSE
  /\ errors = <<>>
  /\ audits = 0
  /\ tree = Text
  /\ locals = [errors |-> <<>>, lastLevel |-> 0]
  /\ prevErrors = <<>>
  /\ filesDone = 0
  /\ violations = <<>>
  /\ summary = [h1Count |-> 0, multipleH1Files |-> 0]
  /\ auto = NoAuto
  /\ outside = NoOutside
  /\ ScriptIdle
  /\ WhatsappIdle

NextScopes ==
  \E s \in ScopeIds :
     \/ ScopeEffect(s)
     \/ ScopeRerender(s)
     \/ ScopeBailout(s)

SpecScopes == InitScopes /\ [][NextScopes]_vars

\* One provider over headings with and without autoLevel.
InitAuto ==
  /\ NODE_ENV \in {"development", "production"}
  /\ auto \in {FreshAuto(init, hs) : init \in 0..MaxInitialLevel, hs \in AutoSeqs}
  /\ PageIdle
  /\ scopes = NoScopes
  /\ outside = NoOutside
  /\ ScriptIdle
  /\ WhatsappIdle

NextAuto ==
  \/ AutoEffect
  \/ AutoRerender
  \/ AutoBailout

SpecAuto == InitAuto /\ [][NextAuto]_vars

\* Headings outside any provider, next to a provider with headings of its own.
InitOutside ==
  /\ NODE_ENV \in {"development", "production"}
  /\ outside \in {FreshOutside(hs) : hs \in OutsideSeqs}
  /\ scopes \in {[s \in ScopeIds |->
                     IF s = "A" THEN FreshScope(init, hs) ELSE FreshScope(0, <<>>)] :
                   init \in 0..MaxInitialLevel, hs \in ScopeSeqs}
  /\ PageIdle
  /\ auto = NoAuto
  /\ ScriptIdle
  /\ WhatsappIdle

NextOutside ==
  \/ OutsideEffect
  \/ ScopeEffect("A")
  \/ ScopeRerender("A")
  \/ ScopeBailout("A")

SpecOutside == InitOutside /\ [][NextOutside]_vars

\* One run of the audit script over the files of the scanned directories.
InitScript ==
  /\ NODE_ENV \in {"development"}
  /\ fileSystem \in {<<a, b>> : a \in SourceFiles(Paths[1]), b \in SourceFiles(Paths[2])}
  /\ auditResults = InitialAuditResults
  /\ scanIdx = 1
  /\ exitCode = <<>>
  /\ PageIdle
  /\ scopes = NoScopes
  /\ auto = NoAuto
  /\ outside = NoOutside
  /\ WhatsappIdle

NextScript ==
  \/ ProcessFile
  \/ Exit

SpecScript == InitScript /\ [][NextScript]_vars

\* The FloatingWhatsapp component after its mount: both states are false
\* and the tooltip effect has run for isVisible = false (it set no timeout).
\* The user scrolls and clicks at will; a pending effect runs and a due
\* timeout expires without the user.
InitWhatsapp ==
  /\ NODE_ENV \in {"development"}
  /\ scrollY \in ScrollPositions
  /\ isVisible = FALSE
  /\ showTooltip = FALSE
  /\ effectFor = FALSE
  /\ timers = {}
  /\ events = 0
  /\ lastEvent = "mount"
  /\ showFired = FALSE
  /\ staleFire = FALSE
  /\ PageIdle
  /\ scopes = NoScopes
  /\ auto = NoAuto
  /\ outside = NoOutside
  /\ ScriptIdle

NextWhatsapp ==
  \/ \E y \in ScrollPositions : Scroll(y)
  \/ TooltipEffect
  \/ ShowTimerFires
  \/ HideTimerFires
  \/ CloseClick

SpecWhatsapp ==
  /\ InitWhatsapp
  /\ [][NextWhatsapp]_vars
  /\ WF_vars(TooltipEffect)
  /\ WF_vars(ShowTimerFires)
  /\ WF_vars(HideTimerFires)

\* ================================================================== claims
Range(s) == {s[i] : i \in 1..Len(s)}

\* deepest level among the first j headings (0 when j = 0)
RECURSIVE Watermark(_, _)
Watermark(hs, j) == IF j = 0 THEN 0 ELSE Max(Watermark(hs, j - 1), hs[j])

\* every heading is at most one level deeper than the deepest one before it
WatermarkLegal(hs) == \A k \in 1..Len(hs) : hs[k] <= Watermark(hs, k - 1) + 1

\* level the k-th heading of a list of at most two follows (0 for the first)
Prior(hs, k) == IF k = 1 THEN 0 ELSE hs[k - 1]

Flagged(hs) == {k \in 1..Len(hs) : hs[k] > Prior(hs, k) + 1}

SkipViolations == SelectSeq(violations, LAMBDA v : v.type = "hierarchy_skip")

\* the auditor and the CLI flag the k-th of at most two headings iff it is
\* more than one level deeper than the level it follows
AuditorSkipRule ==
  (audited /\ Len(headings) <= 2) =>
     /\ \A k \in 1..Len(headings) :
           ErrorText(HeadingTag(headings[k]), Prior(headings, k)) \in Range(errors)
             <=> k \in Flagged(headings)
     /\ Len(errors) = Cardinality(Flagged(headings))

CliSkipRule ==
  (filesDone > 0 /\ Len(headings) <= 2) =>
     /\ \A k \in 1..Len(headings) :
           (\E v \in Range(SkipViolations) :
               /\ v.lineNumber = k
               /\ v.level = headings[k]
               /\ v.previousLevel = Prior(headings, k))
             <=> k \in Flagged(headings)
     /\ Len(SkipViolations) = Cardinality(Flagged(headings))

\* C1 (as claimed): for every prior level 0..6 and observed level 1..6 a skip
\* is reported iff observed > prior + 1, by registerHeading (against the
\* level it sees), by validateHeadingHierarchy and by validateFileHierarchy
\* alike, whatever the build.
C1_SkipRuleAnyBuild ==
  /\ \A i \in 1..Len(calls) :
        calls[i].warned <=> calls[i].level > calls[i].prior + 1
  /\ AuditorSkipRule
  /\ CliSkipRule

\* C1 (amended): the auditor and the CLI report a skip iff observed >
\* prior + 1; registerHeading reports one iff observed > prior + 1 and the
\* build is a development build, and reports nothing in any other build.
C1_SkipRule ==
  /\ \A i \in 1..Len(calls) :
        calls[i].warned <=>
          (NODE_ENV = "development" /\ calls[i].level > calls[i].prior + 1)
  /\ AuditorSkipRule
  /\ CliSkipRule

C1_Witness ==
  /\ \E i \in 1..Len(calls) : calls[i].warned /\ calls[i].prior >= 1
  /\ \E i \in 1..Len(calls) : ~calls[i].warned /\ calls[i].level = calls[i].prior + 1
  /\ audited /\ Len(headings) = 2 /\ errors # <<>>
  /\ filesDone > 0 /\ SkipViolations # <<>>

\* C2: once all registrations are applied, currentLevel is the maximum of
\* the initial level and every registered level (a later shallower heading
\* does not lower it).
C2_Watermark ==
  (Quiescent /\ calls # <<>>) =>
     currentLevel = Max(initialLevel, Watermark(headings, Len(headings)))

\* C3: validateHeadingHierarchy returns no error for a list in which every
\* heading is at most one level deeper than the deepest heading before it.
C3_AuditorAcceptsLegal ==
  (audited /\ WatermarkLegal(headings)) => errors = <<>>

\* C4: in a development build, under initialLevel 0, no warning is emitted
\* in any pass for a list in which every heading is at most one level deeper
\* than the deepest heading before it.
C4_TrackerAcceptsLegal ==
  (NODE_ENV = "development" /\ initialLevel = 0 /\ WatermarkLegal(headings))
     => warnings = <<>>

\* C5: a heading at least two levels deeper than the deepest heading before
\* it is reported, by the auditor and by the tracker, with its own level as
\* the observed level and that deepest level as the prior level.
C5_SkipsAgainstWatermark ==
  \A k \in 1..Len(headings) :
     headings[k] >= Watermark(headings, k - 1) + 2 =>
       /\ audited =>
            ErrorText(HeadingTag(headings[k]), Watermark(headings, k - 1))
              \in Range(errors)
       /\ (NODE_ENV = "development" /\ initialLevel = 0 /\ Quiescent) =>
            WarningText(headings[k], Watermark(headings, k - 1))
              \in Range(warnings)

\* C6: within one pass the k-th registerHeading call is evaluated against the
\* level produced by the (k-1)-th call of that pass (the level that call set,
\* or the maximum it leaves under the watermark reading), never against a
\* level captured before the earlier calls of the pass.
C6_DocumentOrder ==
  \A i \in 2..Len(calls) :
     calls[i].pass = calls[i - 1].pass =>
        calls[i].prior \in {calls[i - 1].level,
                            Max(calls[i - 1].prior, calls[i - 1].level)}

\* C7: in a development build, H1 followed by H4 under initialLevel 0 warns
\* 'Jumping from H1 to H4. Consider using H2 instead.'
C7_WarnsH1ToH4 ==
  (NODE_ENV = "development" /\ initialLevel = 0 /\ headings = <<1, 4>> /\ Quiescent)
     => "Heading hierarchy violation: Jumping from H1 to H4. Consider using H2 instead."
          \in Range(warnings)

\* C8: auditing [1,4] yields exactly one violation, 'Found H4 after H1', with
\* a suggestion of H2.
C8_ScenarioB ==
  (audited /\ headings = <<1, 4>>) =>
     errors = <<"Heading hierarchy violation: Found H4 after H1. Consider using H2 instead.">>

C8_Witness == audited /\ headings = <<1, 4>> /\ Len(errors) = 1

FirstCalls == {i \in 1..Len(calls) : calls[i].pass = 1 /\ calls[i].k = 1 /\ calls[i].prior = 0}

\* C9 (as claimed): the first heading of a scope, tree or file (prior level
\* 0) is never flagged, whatever its level.
C9_FirstHeadingFree ==
  /\ \A i \in FirstCalls : ~calls[i].warned
  /\ (audited /\ headings # <<>>) =>
        ErrorText(HeadingTag(headings[1]), 0) \notin Range(errors)
  /\ (filesDone > 0 /\ headings # <<>>) =>
        ~\E v \in Range(SkipViolations) : v.lineNumber = 1

\* C9 (amended): the first heading (prior level 0) is flagged exactly when
\* its level is 2..6 - by the auditor and the CLI, and by the tracker in a
\* development build; a first heading of level 1 is never flagged.
C9_FirstHeadingRule ==
  /\ \A i \in FirstCalls :
        calls[i].warned <=> (NODE_ENV = "development" /\ calls[i].level >= 2)
  /\ (audited /\ headings # <<>>) =>
        (ErrorText(HeadingTag(headings[1]), 0) \in Range(errors) <=> headings[1] >= 2)
  /\ (filesDone > 0 /\ headings # <<>>) =>
        ((\E v \in Range(SkipViolations) : v.lineNumber = 1 /\ v.previousLevel = 0)
           <=> headings[1] >= 2)

C9_Witness ==
  /\ headings # <<>> /\ headings[1] >= 2
  /\ \E i \in FirstCalls : calls[i].warned
  /\ audited /\ errors # <<>> /\ errors[1] = ErrorText(HeadingTag(headings[1]), 0)
  /\ filesDone > 0 /\ SkipViolations # <<>> /\ SkipViolations[1].lineNumber = 1

\* C10 (as claimed): [2,4] from initial level 0 yields exactly one violation
\* in total.
C10_ScenarioCOne ==
  (headings = <<2, 4>> /\ initialLevel = 0) =>
     /\ audited => Len(errors) = 1
     /\ filesDone > 0 => Len(violations) = 1
     /\ (NODE_ENV = "development" /\ Quiescent) => Len(warnings) = 1

\* C10 (amended): [2,4] from initial level 0 yields exactly two violations
\* in total: H2 against H0 and H4 against H2 in the auditor and the CLI, H2
\* and H4 both against H0 in the tracker of a development build.
C10_ScenarioCTwo ==
  (headings = <<2, 4>> /\ initialLevel = 0) =>
     /\ audited =>
          errors = <<ErrorText("h2", 0), ErrorText("h4", 2)>>
     /\ filesDone > 0 =>
          /\ Len(violations) = 2
          /\ violations[1].level = 2 /\ violations[1].previousLevel = 0
          /\ violations[2].level = 4 /\ violations[2].previousLevel = 2
     /\ (NODE_ENV = "development" /\ Quiescent) =>
          warnings = <<WarningText(2, 0), WarningText(4, 0)>>

C10_Witness ==
  /\ headings = <<2, 4>> /\ initialLevel = 0
  /\ audited /\ filesDone > 0
  /\ NODE_ENV = "development" /\ Quiescent /\ pass = 2

\* number of level-1 headings of the document
H1Count(hs) == Cardinality({k \in 1..Len(hs) : hs[k] = 1})

\* the texts validateHeadingHierarchy uses for a skip
SkipErrorTexts == {ErrorText(HeadingTag(l), p) : l \in Levels, p \in 0..MaxLevel}

\* what the auditor returned that is not a skip (duplicate top-level reports)
DuplicateErrors == SelectSeq(errors, LAMBDA e : e \notin SkipErrorTexts)

SkipErrors == SelectSeq(errors, LAMBDA e : e \in SkipErrorTexts)

DuplicateViolations == SelectSeq(violations, LAMBDA v : v.type = "multiple_h1")

\* C11: an audit of a document with exactly two level-1 headings yields
\* exactly one duplicate-top-level violation, and an audit of a document with
\* exactly one level-1 heading yields none (auditor and CLI).
C11_DuplicateTopLevel ==
  /\ audited =>
       /\ H1Count(headings) = 2 => Len(DuplicateErrors) = 1
       /\ H1Count(headings) = 1 => Len(DuplicateErrors) = 0
  /\ filesDone > 0 =>
       /\ H1Count(headings) = 2 => Len(DuplicateViolations) = 1
       /\ H1Count(headings) = 1 => Len(DuplicateViolations) = 0

\* C12: an audit of a document with n >= 1 level-1 headings reports exactly
\* n - 1 duplicate-top-level (multiple_h1) violations (auditor and CLI).
C12_OnePerExtraH1 ==
  H1Count(headings) >= 1 =>
     /\ audited => Len(DuplicateErrors) = H1Count(headings) - 1
     /\ filesDone > 0 => Len(DuplicateViolations) = H1Count(headings) - 1

\* C13: an audit of [1,2,1] yields no skip violation and exactly one
\* duplicate-top-level violation (auditor and CLI).
C13_ScenarioD ==
  headings = <<1, 2, 1>> =>
     /\ audited => (Len(SkipErrors) = 0 /\ Len(DuplicateErrors) = 1)
     /\ filesDone > 0 => (Len(SkipViolations) = 0 /\ Len(DuplicateViolations) = 1)

\* C14: the scope is reset before each pass: the first registerHeading call
\* of every pass is evaluated as on a freshly created scope, against the
\* scope's initial level, whatever was registered before.
C14_ResetBeforePass ==
  \A i \in 1..Len(calls) :
     calls[i].k = 1 => calls[i].prior = initialLevel

\* C15: when the same headings are registered again because of a re-render,
\* every registration of the later pass yields the violation the single pass
\* over a fresh scope (the mount pass) yields for that heading: none added,
\* none removed, none changed.
C15_RerenderSameResult ==
  \A i, j \in 1..Len(calls) :
     (calls[i].pass = 1 /\ calls[j].pass > 1 /\ calls[i].k = calls[j].k) =>
        /\ calls[j].warned = calls[i].warned
        /\ calls[j].warned => calls[j].prior = calls[i].prior

\* C16: in every scope state and for every level, registerHeading returns the
\* same value and leaves the same level in a production build as in a
\* development build; the builds differ only in the warning: the level the
\* provider settles on does not depend on the build, and a production build
\* logs nothing.
C16_BuildModeIndependence ==
  /\ \A l \in Levels :
        LET dev == registerHeading(l, closureLevel, "development", warnings, queue)
            prod == registerHeading(l, closureLevel, "production", warnings, queue)
        IN /\ dev.returns = prod.returns
           /\ dev.queue = prod.queue
           /\ setCurrentLevel(currentLevel, dev.queue) = setCurrentLevel(currentLevel, prod.queue)
  /\ Quiescent =>
        currentLevel = IF headings = <<>> THEN initialLevel ELSE Last(headings)
  /\ NODE_ENV = "production" => warnings = <<>>

C16_Witness ==
  /\ NODE_ENV = "production"
  /\ Quiescent /\ pass = 2
  /\ \E i \in 1..Len(calls) : calls[i].level > calls[i].prior + 1
  /\ currentLevel = Last(headings)

\* (position, observed level, prior level) of the skips each of the three reports
CliSkips == {<<v.lineNumber, v.level, v.previousLevel>> : v \in Range(SkipViolations)}
TrackerSkips ==
  {<<calls[i].k, calls[i].level, calls[i].prior>> :
      i \in {j \in 1..Len(calls) : calls[j].pass = 1 /\ calls[j].warned}}

\* C18: for every heading list the skips of the CLI audit are at the same
\* positions and carry the same observed and prior levels as those of the
\* static auditor and as those of the live tracker fed the list on a fresh
\* scope.
C18_CliAuditorTrackerAgree ==
  /\ (filesDone > 0 /\ audited) =>
        SkipErrors = [i \in 1..Len(SkipViolations) |->
                        ErrorText(HeadingTag(SkipViolations[i].level),
                                  SkipViolations[i].previousLevel)]
  /\ (filesDone > 0 /\ Quiescent /\ NODE_ENV = "development" /\ initialLevel = 0) =>
        TrackerSkips = CliSkips

\* the errors a list of heading levels yields, each level being compared with
\* the level before it (0 before the first)
RECURSIVE ListErrors(_, _)
ListErrors(hs, last) ==
  IF hs = <<>> THEN <<>>
  ELSE (IF hs[1] > last + 1 THEN <<ErrorText(HeadingTag(hs[1]), last)>> ELSE <<>>)
         \o ListErrors(Tail(hs), hs[1])

\* C19: the list validateHeadingHierarchy returns depends only on the
\* document-order list of heading levels of the tree: flat, wrapped in
\* sections or nested ever deeper, the tree yields the errors of the list.
C19_NonHeadingsTransparent ==
  audited => errors = ListErrors(headings, 0)

C19_Witness ==
  /\ audited
  /\ Len(headings) >= 3
  /\ tree = NestedTree(headings)
  /\ tree # FlatTree(headings)
  /\ errors # <<>>

\* C20: a second call of validateHeadingHierarchy on the same unchanged tree
\* returns the list the first call returned.
C20_AuditIdempotent ==
  audits >= 2 => errors = prevErrors

C20_Witness ==
  /\ audits >= 2
  /\ errors # <<>>
  /\ locals.lastLevel # 0

IsPrefix(a, b) == Len(a) <= Len(b) /\ a = SubSeq(b, 1, Len(a))

\* one pass of registrations over hs, all against the level cur
RECURSIVE RunPass(_, _, _, _)
RunPass(hs, cur, env, acc) ==
  IF hs = <<>> THEN acc
  ELSE RunPass(Tail(hs), cur, env,
               registerHeading(Head(hs), cur, env, acc.console, acc.queue))

\* level and warnings of a provider that runs alone, from mount to rest
Alone(env, init, hs) ==
  LET p1 == RunPass(hs, init, env, [console |-> <<>>, queue |-> <<>>])
      l1 == setCurrentLevel(init, p1.queue)
      p2 == RunPass(hs, l1, env, [console |-> p1.console, queue |-> <<>>])
  IN IF l1 = init
       THEN [currentLevel |-> init, warnings |-> p1.console]
       ELSE [currentLevel |-> setCurrentLevel(l1, p2.queue), warnings |-> p2.console]

\* C17: under every interleaving of the registrations of two scopes, each
\* scope's level and warnings are those it produces when it runs alone:
\* while it runs its warnings are a prefix of them and its level is its
\* initial or its final one, and at rest they are equal.
C17_ScopeIsolation ==
  \A s \in ScopeIds :
     LET sc == scopes[s]
         al == Alone(NODE_ENV, sc.initialLevel, sc.headings)
     IN /\ IsPrefix(sc.warnings, al.warnings)
        /\ sc.currentLevel \in {sc.initialLevel, al.currentLevel}
        /\ ScopeQuiescent(s) =>
              (sc.currentLevel = al.currentLevel /\ sc.warnings = al.warnings)

\* both scopes are in the middle of their second pass at the same time
C17_Witness ==
  /\ \A s \in ScopeIds :
        /\ scopes[s].pass = 2
        /\ scopes[s].effectIdx = 2
        /\ Len(scopes[s].headings) = 2
        /\ scopes[s].warnings # <<>>
  /\ scopes["A"].headings # scopes["B"].headings
  /\ scopes["A"].currentLevel # scopes["B"].currentLevel

WarnedCalls == SelectSeq(calls, LAMBDA c : c.warned)

TrackerMessage(L, P) ==
  "Heading hierarchy violation: Jumping from H" \o ToString(P) \o " to H"
    \o ToString(L) \o ". Consider using H" \o ToString(P + 1) \o " instead."
AuditorMessage(L, P) ==
  "Heading hierarchy violation: Found H" \o ToString(L) \o " after H"
    \o ToString(P) \o ". Consider using H" \o ToString(P + 1) \o " instead."
CliMessage(L, P) ==
  "Heading hierarchy violation: H" \o ToString(L) \o " follows H"
    \o ToString(P) \o " (skipped H" \o ToString(P + 1) \o ")"

\* positions of the headings that are more than one level deeper than the
\* heading before them (level 0 before the first), in document order
SkipPositions(hs) ==
  SelectSeq([k \in 1..Len(hs) |-> k],
            LAMBDA k : hs[k] > (IF k = 1 THEN 0 ELSE hs[k - 1]) + 1)

LevelBefore(hs, k) == IF k = 1 THEN 0 ELSE hs[k - 1]

\* C23: every reported skip names the observed level L and the prior level P
\* it was compared with, L > P + 1, and suggests level P + 1, which lies in
\* 1..6 (tracker warnings, auditor errors and CLI messages).
C23_MessageContent ==
  /\ Len(warnings) = Len(WarnedCalls)
  /\ \A j \in 1..Len(warnings) :
        LET L == WarnedCalls[j].level
            P == WarnedCalls[j].prior
        IN /\ L > P + 1
           /\ P + 1 \in 1..6
           /\ warnings[j] = TrackerMessage(L, P)
  /\ audited =>
        /\ Len(errors) = Len(SkipPositions(headings))
        /\ \A j \in 1..Len(errors) :
              LET k == SkipPositions(headings)[j]
                  L == headings[k]
                  P == LevelBefore(headings, k)
              IN /\ L > P + 1
                 /\ P + 1 \in 1..6
                 /\ errors[j] = AuditorMessage(L, P)
  /\ \A j \in 1..Len(SkipViolations) :
        LET v == SkipViolations[j]
        IN /\ v.level > v.previousLevel + 1
           /\ v.previousLevel + 1 \in 1..6
           /\ v.message = CliMessage(v.level, v.previousLevel)

C23_Witness ==
  /\ Quiescent /\ audited /\ filesDone > 0
  /\ \E j \in 1..Len(WarnedCalls) :
        WarnedCalls[j].prior >= 1 /\ WarnedCalls[j].level >= WarnedCalls[j].prior + 3
  /\ \E j \in 1..Len(errors) :
        headings[SkipPositions(headings)[j]]
          >= LevelBefore(headings, SkipPositions(headings)[j]) + 3
  /\ SkipViolations # <<>>

TrackerNext == HeadingEffect \/ ProviderRerender \/ ProviderBailout

\* C25: the registration cycle of a list of headings without autoLevel
\* takes at most two passes and at most two registrations per heading; until
\* it is quiescent a next step exists, and once it is quiescent no step of
\* the cycle is enabled and currentLevel is the level of the last heading
\* (the initial level under no heading).
C25_RegistrationConverges ==
  /\ pass <= 2
  /\ Len(calls) <= 2 * Len(headings)
  /\ Quiescent \/ ENABLED TrackerNext
  /\ Quiescent =>
        /\ ~ENABLED TrackerNext
        /\ currentLevel = IF headings = <<>> THEN initialLevel ELSE Last(headings)

C25_Witness ==
  /\ Quiescent
  /\ pass = 2
  /\ Len(headings) >= 3
  /\ Len(calls) = 2 * Len(headings)
  /\ currentLevel # initialLevel

\* C22 (as claimed): the tag a heading emits is always the one of the level
\* prop the caller passed (H1..H6 emit h1..h6), in every scope state and
\* whether or not a violation is reported.
C22_EmitsRequestedLevel ==
  \A k \in 1..Len(auto.headings) :
     auto.rendered[k] = HeadingTag(auto.headings[k].level)

\* C22 (amended): a heading rendered without autoLevel always emits the tag
\* of its level prop, in every scope state and pass and whether or not it
\* was reported; a heading rendered with autoLevel emits the tag of
\* min(context level + 1, 6), whatever its level prop.
C22_EmitsRequestedUnlessAuto ==
  \A k \in 1..Len(auto.headings) :
     LET h == auto.headings[k]
     IN /\ ~h.autoLevel => auto.rendered[k] = HeadingTag(h.level)
        /\ h.autoLevel =>
             auto.rendered[k] = HeadingTag(Min(auto.currentLevel + 1, 6))

C22_Witness ==
  /\ NODE_ENV = "development"
  /\ auto.pass = 2
  /\ auto.currentLevel # auto.initialLevel
  /\ \E k \in auto.warned :
        /\ ~auto.headings[k].autoLevel
        /\ auto.rendered[k] = HeadingTag(auto.headings[k].level)
        /\ auto.headings[k].level > auto.currentLevel + 1
  /\ \E k \in 1..Len(auto.headings) : auto.headings[k].autoLevel

\* C26: a single heading rendered with autoLevel under a provider of level n
\* emits level min(n + 1, 6) when it mounts, and once its registration cycle
\* has settled it still emits that level.
C26_AutoLevelStable ==
  (Len(auto.headings) = 1 /\ auto.headings[1].autoLevel) =>
     /\ auto.pass = 1 =>
          auto.rendered[1] = HeadingTag(Min(auto.initialLevel + 1, 6))
     /\ AutoQuiescent =>
          auto.rendered[1] = HeadingTag(Min(auto.initialLevel + 1, 6))

\* C27: a heading rendered outside any HeadingProvider registers with the
\* default context: nothing is logged, nothing is queued, the context level
\* stays 0 after any number of registrations, and the provider mounted next
\* to it has the level and warnings of its run alone.
C27_NoScopeNoTracking ==
  /\ outside.context.console = <<>>
  /\ outside.context.queue = <<>>
  /\ outside.context.level = 0
  /\ LET sc == scopes["A"]
         al == Alone(NODE_ENV, sc.initialLevel, sc.headings)
     IN /\ IsPrefix(sc.warnings, al.warnings)
        /\ ScopeQuiescent("A") =>
              (sc.currentLevel = al.currentLevel /\ sc.warnings = al.warnings)

\* two headings were registered outside a provider, the second one a skip
\* in a development build, while the provider is in its second pass
C27_Witness ==
  /\ NODE_ENV = "development"
  /\ outside.effectIdx = 3
  /\ ~outside.headings[2].autoLevel
  /\ outside.headings[2].level > 1
  /\ scopes["A"].pass = 2
  /\ scopes["A"].warnings # <<>>

RECURSIVE SumSeq(_)
SumSeq(ns) == IF ns = <<>> THEN 0 ELSE Head(ns) + SumSeq(Tail(ns))

\* the heading opening tags of a source text, per level or all of them
OpeningTags(content) ==
  SelectSeq(Occurrences(content, 1), LAMBDA o : o.tag.form # "close")

\* the files processFile was called on and could read
ReadFiles == SelectSeq(SubSeq(fileSystem, 1, scanIdx - 1), LAMBDA f : f.readable)

\* C28: extractHeadings returns exactly one entry per heading opening tag of
\* the source, in ascending line order: every scanned file is recorded with
\* as many headings as it has opening tags, totalHeadings is their number
\* over all files, and h1Count is the number of level-1 opening tags.
C28_ExtractionOneToOne ==
  /\ Len(auditResults.files) = Len(ReadFiles)
  /\ \A i \in 1..Len(auditResults.files) :
        LET hs == auditResults.files[i].headings
            tags == OpeningTags(ReadFiles[i].content)
        IN /\ Len(hs) = Len(tags)
           /\ \A k \in 1..Len(hs) :
                 /\ hs[k].level = tags[k].tag.level
                 /\ hs[k].lineNumber = tags[k].lineNumber
           /\ \A k \in 2..Len(hs) : hs[k - 1].lineNumber <= hs[k].lineNumber
  /\ auditResults.summary.totalHeadings =
        SumSeq([i \in 1..Len(ReadFiles) |-> Len(OpeningTags(ReadFiles[i].content))])
  /\ auditResults.summary.h1Count =
        SumSeq([i \in 1..Len(ReadFiles) |->
                  Len(SelectSeq(OpeningTags(ReadFiles[i].content),
                                LAMBDA o : o.tag.level = 1))])

\* C29: after any sequence of processFile calls summary.violationsFound is
\* the length of auditResults.violations, which is the sum of the lengths of
\* the per-file violation lists, and the script exits with code 1 iff
\* violationsFound > 0 and with code 0 otherwise.
C29_CliAccounting ==
  /\ auditResults.summary.violationsFound = Len(auditResults.violations)
  /\ Len(auditResults.violations) =
        SumSeq([i \in 1..Len(auditResults.files) |->
                  Len(auditResults.files[i].violations)])
  /\ auditResults.summary.totalFiles = scanIdx - 1
  /\ exitCode \in {<<>>, <<0>>, <<1>>}
  /\ exitCode # <<>> =>
        /\ scanIdx > Len(fileSystem)
        /\ (exitCode = <<1>>) <=> (Len(auditResults.violations) > 0)
        /\ (exitCode = <<0>>) <=> (Len(auditResults.violations) = 0)

\* the script exited with code 1 after two files with two violations each
C29_Witness ==
  /\ exitCode = <<1>>
  /\ Len(auditResults.files) = 2
  /\ \A i \in 1..2 : Len(auditResults.files[i].violations) = 2
  /\ auditResults.summary.violationsFound = 4

\* C24: after the mount the tooltip is hidden; with no user interaction it
\* becomes visible eventually; and after every click on the close button,
\* a repeated one too, the tooltip is hidden.
C24_TooltipLifecycle ==
  /\ ~Displayed
  /\ <>(events > 0 \/ Displayed)
  /\ [][lastEvent' = "close" => ~Displayed']_vars

\* C30: the tooltip is displayed only while the page is scrolled past 300px,
\* only once the show timer of the present visibility period has fired, and
\* no timer fires while the button is hidden.
C30_TooltipGating ==
  /\ Displayed => scrollY > ScrollThreshold
  /\ Displayed => showFired
  /\ ~staleFire

====
